---- MODULE Spec2Model ----
(***************************************************************************)
(* lxd2etcd: the refresh control loop of internal/lxd2etcd/service.go.     *)
(*                                                                         *)
(* Processes:                                                              *)
(*   - the scheduler: the goroutine running Service.Start, including the   *)
(*     calls of initServiceWithRetries, Populate, Persist and disconnect;  *)
(*   - the per-attempt goroutine spawned by initServiceWithRetries, which  *)
(*     runs Service.init (and the goroutines left behind by a cancelled    *)
(*     invocation);                                                        *)
(*   - the environment: the context's cancellation, the three timers, and  *)
(*     the LXD event listener calling the lifecycle handler.               *)
(*                                                                         *)
(* A Go select is modelled in two steps.  Entering the select picks one    *)
(* of the ready cases, any of them, and performs its channel operation;    *)
(* with no case ready the goroutine parks.  A parked goroutine is woken    *)
(* by the first operation that makes one of its cases ready, and is then   *)
(* committed to that case (a value sent to a parked receiver is handed     *)
(* over directly and never enters the channel's buffer).                   *)
(***************************************************************************)
EXTENDS Integers, FiniteSets, Sequences, TLC

\* ---- bounds of the model
MaxEvents == 2          \* lifecycle events delivered during one run
MaxInitFailures == 2    \* failed init attempts during one run of Start
MaxAttempts == 8        \* failed init attempts, for one invocation of
                        \*   initServiceWithRetries taken alone
MaxAddrs == 2           \* addresses of one network device of a container
MaxHostChanges == 2     \* changes of the host's state during one run
MaxCloseFailures == 1   \* failing etcdClient.Close calls during one run

\* ---- program constants
TriggerCap == 1         \* make(chan struct{}, 1)
RefreshChanCap == 1000  \* make(chan struct{}, 1000)
BackoffStep == 10       \* wait = wait + 10
BackoffCeiling == 60    \* if wait < 60

VARIABLES
    pc,             \* position of the scheduler (Service.Start)
    initialized,    \* service.initialized
    wait,           \* wait of initServiceWithRetries, in seconds
    err,            \* err of Service.Start: the value Start returns
    cancelled,      \* ctx.Done() is closed
    trigger,        \* number of entries of processingTriggerChan
    refreshChan,    \* number of entries of service.refreshChan
    errSenders,     \* handler invocations blocked sending on service.errorChan
    staleSenders,   \* those of them that were already blocked when the
                    \*   current invocation of initServiceWithRetries began
    ect,            \* emptyChanTimer: "running", "inC" (fired, value in C),
                    \*   "drained" (fired, value received)
    settleArmed,    \* waitForDHCPTimer is armed
    btFired,        \* the backoff timer has fired and its value is in timer.C
    gpc,            \* position of the goroutine of the current init attempt
    orph,           \* position of the goroutine of an abandoned attempt that
                    \*   is still inside init ("none" if there is none)
    gblocked,       \* some goroutine is blocked for ever sending on
                    \*   errChan/doneChan
    listener,       \* service.lxdEventListener: "nil", "bare" (active, no
                    \*   handler yet), "active" (handler installed), "closed"
    leak,           \* a listener with the handler installed is still active
                    \*   but no longer referenced by the service
    etcd,           \* service.etcdClient: "nil", "open", "closed"
    events,         \* events delivered so far
    failBudget,     \* init attempts that may still fail
    closeBudget,    \* etcdClient.Close calls that may still fail
    attempt,        \* failed attempts of the current invocation
    cycles,         \* refresh cycles in progress
    burstN,         \* signals received by the current debounce handling
    burstSent,      \* triggers enqueued by the current debounce handling
    backoffCancel,  \* initServiceWithRetries has returned on ctx.Done() in backoff
    cancelInFlight, \* the context was cancelled while Populate/Persist ran
    lxd,            \* what the LXD host reports: its networks and containers
                    \*   (ver counts the changes of the host's state)
    cfg,            \* the configuration: hostname and containers section
    file,           \* the configuration file main hands to ReadInConfig
    logLevel,       \* the log level of the root logger (loggo)
    lxdInfo,        \* lxdInfo of Service.Start: the snapshot of the cycle
    store,          \* the contents of the etcd store, key by key
    event           \* an event the host is about to deliver to the handler

sched == <<pc, initialized, wait, err>>
chans == <<trigger, refreshChan, errSenders, staleSenders>>
timers == <<ect, settleArmed, btFired>>
gor == <<gpc, orph, gblocked>>
conns == <<listener, leak, etcd>>
ghost == <<attempt, cycles, burstN, burstSent, backoffCancel, cancelInFlight>>
env == <<events, failBudget, closeBudget>>
data == <<lxd, cfg, file, logLevel, lxdInfo, store, event>>
vars == <<sched, cancelled, chans, timers, gor, conns, env, ghost, data>>

InitPcs == {"i1", "i2", "i3", "i4"}
InFlightPcs == {"populate", "persistNet", "persistCont"}

Min(a, b) == IF a < b THEN a ELSE b

\* ---- pure helpers

\* select { case processingTriggerChan <- struct{}{}: ... default: }
TrySendAlways(t) == t + 1
TrySend(t) == IF t < TriggerCap THEN t + 1 ELSE t

\* the senders blocked on errorChan are received oldest first: of n senders
\* left from before the current invocation one fewer is left after a receive
StaleAfterReceive(n) == IF n > 0 THEN n - 1 ELSE 0

\* if wait < 60 { wait = wait + 10 }
BackoffNextNoCeiling(w) == w + BackoffStep
BackoffNext(w) == IF w < BackoffCeiling THEN w + BackoffStep ELSE w

\* Service.disconnect
DisconnectListener(l) == IF l \in {"bare", "active"} THEN "closed" ELSE l
DisconnectEtcd(e) == IF e = "open" THEN "closed" ELSE e

\* err = service.etcdClient.Close(), called on an open client: what it may
\* return.  The client is closed in both cases; err is a local of disconnect
\* and is only logged.
CloseResults(e) ==
    IF e = "open" /\ closeBudget > 0 THEN {"nil", "close"} ELSE {"nil"}

\* the levels the root logger is given: loggo.INFO at startup, loggo.DEBUG
\* and loggo.TRACE by ToggleDebug
LogLevels == {"INFO", "DEBUG", "TRACE"}

\* Service.ToggleDebug: the level it sets when the logger is at level
ToggleDebugLevel(level) ==
    IF level = "INFO" THEN "DEBUG"
    ELSE IF level = "DEBUG" THEN "TRACE"
    ELSE "INFO"

\* if !service.initialized { continue }
MayRefreshUnchecked == TRUE
MayRefresh == initialized

\* ---------------------------------------------------------------------------
\* HandleLxdEvent (lxdevents.go).  An action label is a string, modelled as
\* the sequence of its characters.

InstancePrefix == <<"i", "n", "s", "t", "a", "n", "c", "e", "-">>
NetworkPrefix == <<"n", "e", "t", "w", "o", "r", "k", "-">>

\* strings.HasPrefix: len(s) >= len(prefix) && s[:len(prefix)] == prefix
HasPrefix(s, prefix) ==
    Len(s) >= Len(prefix) /\ SubSeq(s, 1, Len(prefix)) = prefix

\* a variant that knows the "instance-" prefix only
IsRefreshActionInstanceOnly(action) == HasPrefix(action, InstancePrefix)

\* strings.HasPrefix(lcEvent.Action, "instance-") ||
\* strings.HasPrefix(lcEvent.Action, "network-")
IsRefreshAction(action) ==
    HasPrefix(action, InstancePrefix) \/ HasPrefix(action, NetworkPrefix)

\* the value HandleLxdEvent returns (err: an error, or nil) and the number of
\* signals it sends on refreshChan
HandleLxdEvent(ev) ==
    IF ~ev.decodable THEN [err |-> TRUE, signals |-> 0]
    ELSE IF IsRefreshAction(ev.action) THEN [err |-> FALSE, signals |-> 1]
    ELSE [err |-> FALSE, signals |-> 0]

\* events: whether json.Unmarshal of the metadata succeeds, and the action
LabelHeads ==
    { InstancePrefix, NetworkPrefix,
      <<"i", "m", "a", "g", "e", "-">>,
      <<"i", "n", "s", "t", "a", "n", "c", "e">>,
      <<"n", "e", "t", "w", "o", "r", "k">>,
      <<"n", "e", "t", "w", "o", "r", "k", "s", "-">>,
      <<"I", "n", "s", "t", "a", "n", "c", "e", "-">>,
      <<"x">> \o InstancePrefix,
      <<>> }
LabelTails ==
    { <<>>, <<"-">>, <<"s", "t", "a", "r", "t", "e", "d">>,
      <<"d", "o", "w", "n", "l", "o", "a", "d", "e", "d">> }
Labels == {h \o t : h \in LabelHeads, t \in LabelTails}
EventInputs == [pending : {TRUE}, decodable : BOOLEAN, action : Labels]
NoEvent == [pending |-> FALSE, decodable |-> TRUE, action |-> <<>>]

\* the two events of the runs of Start: instance-started, and one whose
\* metadata cannot be decoded
InstanceStarted ==
    [pending |-> TRUE, decodable |-> TRUE,
     action |-> InstancePrefix \o <<"s", "t", "a", "r", "t", "e", "d">>]
Undecodable == [pending |-> TRUE, decodable |-> FALSE, action |-> <<>>]

\* ---------------------------------------------------------------------------
\* LxdInfo.Populate and LxdInfo.Persist (lxdinfo.go), ContainersConfig.Get

\* a Go slice: nil, or a (possibly empty) list
NilSlice == [nil |-> TRUE, elems |-> <<>>]
MakeSlice(s) == [nil |-> FALSE, elems |-> s]

\* fmt.Sprintf("%s/%s", instanceAddress.Address, instanceAddress.Netmask)
Cidr(a) == <<a.address, "/", a.netmask>>
CidrList(addrs) == [i \in 1..Len(addrs) |-> Cidr(addrs[i])]

IsInet(a) == a.family = "inet"
IsNotInet(a) == a.family # "inet"

\* one network device of a container: the body of the loop over
\* container.State.Network
NetDevOf(dev) ==
    [Network |-> dev.network, Port |-> dev.hostname, MAC |-> dev.hwaddr,
     IPv4 |-> MakeSlice(CidrList(SelectSeq(dev.addresses, IsInet))),
     IPv6 |-> MakeSlice(CidrList(SelectSeq(dev.addresses, IsNotInet)))]

\* ContainersConfig.Get: the entry of the container, or an empty ContainerData
ContainersConfigGetFirst(table, name) ==
    IF DOMAIN table # {} THEN table[CHOOSE n \in DOMAIN table : TRUE]
    ELSE [NodeIP |-> "", DefaultInterface |-> ""]
ContainersConfigGet(table, name) ==
    IF name \in DOMAIN table THEN table[name]
    ELSE [NodeIP |-> "", DefaultInterface |-> ""]

\* if netname == containersExtraData.DefaultInterface
IsDefault(netname, defaultInterface) == netname = defaultInterface

\* the ContainerInfo Populate builds for one container
ContainerInfoOf(c, table) ==
    LET extra == ContainersConfigGet(table, c.name)
        defaults == {d \in DOMAIN c.devices : IsDefault(d, extra.DefaultInterface)}
        dflt == NetDevOf(c.devices[CHOOSE d \in defaults : TRUE])
    IN  [Status |-> c.status,
         NodeIP |-> extra.NodeIP,
         DefaultInterface |-> extra.DefaultInterface,
         DefaultIPv4 |-> IF defaults = {} THEN NilSlice ELSE dflt.IPv4,
         DefaultIPv6 |-> IF defaults = {} THEN NilSlice ELSE dflt.IPv6,
         NetDevs |-> [d \in DOMAIN c.devices |-> NetDevOf(c.devices[d])]]

\* lxdInfo = &LxdInfo{}
NewLxdInfo == [ver |-> 0, complete |-> FALSE, Networks |-> <<>>, Containers |-> <<>>]

\* lxdInfo.Networks after the first k networks have been processed
NetworksUpTo(host, k) ==
    [n \in {host.networks[i].name : i \in 1..k} |->
        [MAC |-> host.networks[CHOOSE i \in 1..k : host.networks[i].name = n].hwaddr]]

\* lxdInfo.Containers after the loop over the containers
ContainersOf(host, table) ==
    [n \in {host.containers[i].name : i \in 1..Len(host.containers)} |->
        ContainerInfoOf(
            host.containers[CHOOSE i \in 1..Len(host.containers) :
                                host.containers[i].name = n], table)]

\* The host queries of Populate, in order: 1 is GetNetworks, 1 + i is
\* GetNetworkState of the i-th network, n + 2 is GetContainersFull.
PopulateFailures(host) == 1..(Len(host.networks) + 2)

\* Populate with its failAt-th host query failing (0: none fails): the error
\* it returns and what lxdInfo holds when it returns.  ver and complete are
\* not data of the program: they tell which state of the host the snapshot
\* was taken from and whether Populate ran to its end.
Populate(host, table, failAt) ==
    LET n == Len(host.networks)
        filled == IF failAt = 0 \/ failAt = n + 2 THEN n
                  ELSE IF failAt = 1 THEN 0 ELSE failAt - 2
    IN  [err |-> failAt # 0,
         info |-> [ver |-> host.ver,
                   complete |-> failAt = 0,
                   Networks |-> NetworksUpTo(host, filled),
                   Containers |-> IF failAt = 0 THEN ContainersOf(host, table)
                                  ELSE <<>>]]

\* json.Marshal: a nil slice is encoded as null, any other as an array
EncodeSlice(sl) ==
    IF sl.nil THEN [kind |-> "null", items |-> <<>>]
    ELSE [kind |-> "array", items |-> sl.elems]
EncodeNetDev(nd) ==
    [network |-> nd.Network, port |-> nd.Port, mac |-> nd.MAC,
     ipv4 |-> EncodeSlice(nd.IPv4), ipv6 |-> EncodeSlice(nd.IPv6)]
EncodeContainer(ci) ==
    [status |-> ci.Status,
     default_interface |-> ci.DefaultInterface,
     default_ipv4 |-> EncodeSlice(ci.DefaultIPv4),
     default_ipv6 |-> EncodeSlice(ci.DefaultIPv6),
     node_ip |-> ci.NodeIP,
     netdevs |-> [d \in DOMAIN ci.NetDevs |-> EncodeNetDev(ci.NetDevs[d])]]
MarshalNetworks(info) ==
    [n \in DOMAIN info.Networks |-> [mac |-> info.Networks[n].MAC]]
MarshalContainers(info) ==
    [c \in DOMAIN info.Containers |-> EncodeContainer(info.Containers[c])]

\* keys of the store: fmt.Sprintf("/lxd/%s/networks", config.GetHostname())
\* and fmt.Sprintf("/lxd/%s/containers", config.GetHostname())
NetworksKey(hostname) == <<"/lxd/", hostname, "/networks">>
ContainersKeyShared(hostname) == <<"/lxd/", "/containers">>
ContainersKey(hostname) == <<"/lxd/", hostname, "/containers">>

Hostnames == {"host1", "host2"}
StoreKeys ==
    {NetworksKey(h) : h \in Hostnames} \cup {ContainersKey(h) : h \in Hostnames}
        \cup {<<"/lxd/", "/containers">>, <<"/registry">>}

\* a value of the store: absent, or present with the JSON text written (ver
\* and complete are those of the snapshot it was taken from)
Absent == [present |-> FALSE, ver |-> 0, complete |-> TRUE, json |-> <<>>]
Foreign == [present |-> TRUE, ver |-> 0, complete |-> TRUE, json |-> <<>>]
StoredValue(info, json) ==
    [present |-> TRUE, ver |-> info.ver, complete |-> info.complete, json |-> json]

\* etcdClient.Put(ctx, key, value)
PutLost(st, key, value) == st
Put(st, key, value) == [st EXCEPT ![key] = value]

\* the store before the service starts: records of another host, other data
Store0 ==
    [k \in StoreKeys |->
        IF k \in {NetworksKey("host2"), ContainersKey("host2"), <<"/registry">>}
        THEN Foreign ELSE Absent]

\* ---- states of the host and configurations

Net0 == [name |-> "eth0", hwaddr |-> "aa:bb:cc:dd:ee:ff"]
Net1 == [name |-> "lxdbr0", hwaddr |-> "00:16:3e:00:00:01"]
Addr4 == [family |-> "inet", address |-> "10.0.0.5", netmask |-> "24"]
Addr6 == [family |-> "inet6", address |-> "fd42::5", netmask |-> "64"]
AddrPool == {Addr4, Addr6}
SeqsUpTo(S, n) == UNION {[1..k -> S] : k \in 0..n}
DeviceOf(addrs) ==
    [network |-> "lxdbr0", hostname |-> "veth0", hwaddr |-> "00:16:3e:aa:bb:cc",
     addresses |-> addrs]
DevNames == {"eth0", "eth1"}
DeviceMaps ==
    UNION {[D -> {DeviceOf(a) : a \in SeqsUpTo(AddrPool, MaxAddrs)}] :
              D \in SUBSET DevNames}
ContainerInputs ==
    [name : {"web1"}, status : {"Running", "Stopped"}, devices : DeviceMaps]

\* the host and the configuration of the end-to-end scenario: one network
\* eth0, one container web1 with device eth0 on lxdbr0 and 10.0.0.5/24
Web1 ==
    [name |-> "web1", status |-> "Running",
     devices |-> [d \in {"eth0"} |-> DeviceOf(<<Addr4>>)]]
Db1 ==
    [name |-> "db1", status |-> "Stopped",
     devices |-> [d \in {"eth1"} |-> DeviceOf(<<Addr6, Addr4>>)]]
Host0 == [ver |-> 0, networks |-> <<Net0>>, containers |-> <<Web1>>]
HostTwo == [ver |-> 0, networks |-> <<Net0, Net1>>, containers |-> <<Web1, Db1>>]
HostNone == [ver |-> 0, networks |-> <<Net1>>, containers |-> <<>>]
HostStates == {Host0, HostTwo, HostNone}
HostInputs ==
    {[ver |-> 0, networks |-> <<Net0, Net1>>, containers |-> <<c>>] :
        c \in ContainerInputs} \cup HostStates

Web1Data == [NodeIP |-> "10.0.0.5", DefaultInterface |-> "eth0"]
Db1Data == [NodeIP |-> "", DefaultInterface |-> "eth1"]
EntryInputs ==
    [NodeIP : {"", "10.0.0.5"}, DefaultInterface : {"", "eth0", "eth1", "eth9"}]
TableInputs ==
    {<<>>} \cup {[n \in {"db1"} |-> Db1Data]}
      \cup {[n \in {"web1"} |-> e] : e \in EntryInputs}
      \cup {[n \in {"web1", "db1"} |-> IF n = "web1" THEN e ELSE Db1Data] :
              e \in EntryInputs}
Cfg0 == [hostname |-> "host1", containers |-> [n \in {"web1"} |-> Web1Data]]
CfgInputs == [hostname : {"host1"}, containers : TableInputs]

\* ---- the configuration file (package config)

\* net.ParseIP(s) != nil, on the literals the configuration files use
IPLiterals == {"10.0.0.5", "fe80::1"}
ParseIP(s) == s \in IPLiterals

\* ContainerData.validate; the result is the error, "nil" for none
ContainerDataValidateAny(d) == "nil"
ContainerDataValidate(d) ==
    IF d.NodeIP # "" /\ ~ParseIP(d.NodeIP) THEN "node_ip" ELSE "nil"

\* ContainersConfig.validate
ContainersConfigValidate(t) ==
    IF \E n \in DOMAIN t : ContainerDataValidate(t[n]) # "nil"
    THEN "node_ip" ELSE "nil"

\* LxdConfig.validate
LxdConfigValidate(c) ==
    CASE c.socket = "" -> "socket"
      [] c.waitForDHCP = 0 -> "wait_for_dhcp"
      [] c.periodicRefresh = 0 -> "periodic_refresh"
      [] OTHER -> "nil"

\* EtcdConfig.validate
EtcdConfigValidate(c) ==
    CASE c.endpoints < 1 -> "endpoints"
      [] c.dialTimeout = 0 -> "dial_timeout"
      [] OTHER -> "nil"

\* Config.validate
ConfigValidate(c) ==
    CASE c.hostname = "" -> "hostname"
      [] LxdConfigValidate(c) # "nil" -> LxdConfigValidate(c)
      [] EtcdConfigValidate(c) # "nil" -> EtcdConfigValidate(c)
      [] OTHER -> ContainersConfigValidate(c.containers)

\* the error ReadInConfig returns for the file f: os.ReadFile, yaml.Unmarshal,
\* validate
ReadInConfigErr(f) ==
    CASE ~f.readable -> "read"
      [] ~f.parses -> "parse"
      [] OTHER -> ConfigValidate(f)

\* the zero Config, before ReadInConfig has assigned Configuration
CfgZero == [hostname |-> "", containers |-> <<>>]

\* the configuration file of the end-to-end scenario
File0 ==
    [readable |-> TRUE, parses |-> TRUE, debug |-> FALSE,
     hostname |-> "host1", socket |-> "/var/lib/lxd/unix.socket",
     waitForDHCP |-> 5, periodicRefresh |-> 60, endpoints |-> 1,
     dialTimeout |-> 5, containers |-> Cfg0.containers]

\* configuration files: unreadable, unparsable, and every combination of a
\* missing and a given value of the required fields, with a valid, an empty
\* and an invalid node_ip
FileInputs ==
    [readable : BOOLEAN, parses : BOOLEAN, debug : BOOLEAN,
     hostname : {"", "host1"}, socket : {"", "/var/lib/lxd/unix.socket"},
     waitForDHCP : {0, 5}, periodicRefresh : {0, 60}, endpoints : {0, 1},
     dialTimeout : {0, 5},
     containers : {<<>>, Cfg0.containers,
                   [n \in {"web1"} |-> Db1Data],
                   [n \in {"web1"} |->
                      [NodeIP |-> "10.0.0.256", DefaultInterface |-> "eth0"]]}]

\* the store an earlier run of the service on Host0 with Cfg0 has left
StoreAfterRun ==
    LET info == Populate(Host0, Cfg0.containers, 0).info IN
    Put(Put(Store0, NetworksKey(Cfg0.hostname),
            StoredValue(info, MarshalNetworks(info))),
        ContainersKey(Cfg0.hostname),
        StoredValue(info, MarshalContainers(info)))

TypeOK ==
    /\ initialized \in BOOLEAN /\ cancelled \in BOOLEAN
    /\ wait \in 0..(BackoffCeiling + BackoffStep)
    /\ err \in {"nil", "populate", "persist", "ctx", "async"}
    /\ trigger \in 0..(TriggerCap + 1)
    /\ refreshChan \in 0..MaxEvents
    /\ errSenders \in 0..MaxEvents
    /\ staleSenders \in 0..errSenders
    /\ events \in 0..MaxEvents
    /\ ect \in {"running", "inC", "drained"}
    /\ settleArmed \in BOOLEAN /\ btFired \in BOOLEAN
    /\ orph \in InitPcs \cup {"none"}
    /\ gblocked \in BOOLEAN
    /\ listener \in {"nil", "bare", "active", "closed"}
    /\ leak \in BOOLEAN
    /\ etcd \in {"nil", "open", "closed"}
    /\ attempt \in 0..(MaxAttempts + MaxInitFailures)
    /\ cycles \in 0..2
    /\ DOMAIN store = StoreKeys
    /\ cfg.hostname \in Hostnames \cup {""}
    /\ logLevel \in LogLevels
    /\ closeBudget \in 0..MaxCloseFailures
    /\ lxd.ver \in 0..MaxHostChanges
    /\ event \in [pending : BOOLEAN, decodable : BOOLEAN, action : Labels]

\* NewService, then Start up to the ServiceLoop label: the ticker and the
\* debounce timer are running, the settle timer is created and stopped.
Service0 ==
    /\ initialized = FALSE
    /\ wait = 0
    /\ err = "nil"
    /\ cancelled = FALSE
    /\ trigger = 0 /\ refreshChan = 0 /\ errSenders = 0
    /\ staleSenders = 0
    /\ ect = "running"
    /\ settleArmed = FALSE
    /\ btFired = FALSE
    /\ gpc = "none"
    /\ orph = "none"
    /\ gblocked = FALSE
    /\ listener = "nil" /\ leak = FALSE /\ etcd = "nil"
    /\ attempt = 0 /\ cycles = 0
    /\ burstN = 0 /\ burstSent = 0
    /\ backoffCancel = FALSE /\ cancelInFlight = FALSE
    /\ events = 0
    /\ lxdInfo = NewLxdInfo
    /\ logLevel = "INFO"

\* Start has been called with the configuration of File0 read in
Start0 ==
    /\ pc = "initEnter"
    /\ file = File0
    /\ Service0

\* Start is called on the host of the end-to-end scenario, after an earlier
\* run of the service on that host
Init ==
    /\ Start0
    /\ failBudget = MaxInitFailures
    /\ closeBudget = 0
    /\ lxd = Host0 /\ cfg = Cfg0 /\ store = StoreAfterRun
    /\ event = NoEvent

\* ---------------------------------------------------------------------------
\* main, up to the call of Service.Start

\* config.ReadInConfig() in main: on an error main logs it and calls
\* os.Exit(1); otherwise Configuration is assigned and the log level is set
\* from its debug field
ReadInConfig ==
    /\ pc = "readInConfig"
    /\ IF ReadInConfigErr(file) # "nil"
       THEN /\ pc' = "exit"
            /\ UNCHANGED <<cfg, logLevel>>
       ELSE /\ pc' = "newService"
            /\ cfg' = [hostname |-> file.hostname,
                       containers |-> file.containers]
            /\ logLevel' = IF file.debug THEN "DEBUG" ELSE "INFO"
    /\ UNCHANGED <<lxd, file, lxdInfo, store, event>>
    /\ UNCHANGED <<initialized, wait, err, cancelled, chans, timers, gor,
                   conns, ghost, env>>

\* NewService(), the signal goroutine, Service.Start up to ServiceLoop
MainStart ==
    /\ pc = "newService"
    /\ pc' = "initEnter"
    /\ UNCHANGED data
    /\ UNCHANGED <<initialized, wait, err, cancelled, chans, timers, gor,
                   conns, ghost, env>>

\* ---------------------------------------------------------------------------
\* initServiceWithRetries (scheduler side)

\* a variant of InitEnter in which the wait goes on from the failed attempts
\* of the earlier invocations
InitEnterResuming ==
    /\ pc = "initEnter"
    /\ orph = "none"
    /\ pc' = "spawn"
    /\ initialized' = FALSE
    /\ wait' = BackoffStep * (MaxInitFailures - failBudget)
    /\ attempt' = 0
    /\ cancelInFlight' = FALSE
    /\ UNCHANGED data
    /\ staleSenders' = errSenders
    /\ UNCHANGED <<err, cancelled, trigger, refreshChan, errSenders, timers,
                   gor, conns, cycles, burstN, burstSent, backoffCancel, env>>

\* service.initialized = false; wait = 0; the three channels are created.
\* (The model keeps one abandoned goroutine at a time: the next invocation
\* starts once the goroutine of a cancelled one has left init.)
InitEnter ==
    /\ pc = "initEnter"
    /\ orph = "none"
    /\ pc' = "spawn"
    /\ initialized' = FALSE
    /\ wait' = 0
    /\ attempt' = 0
    /\ cancelInFlight' = FALSE
    /\ UNCHANGED data
    /\ staleSenders' = errSenders
    /\ UNCHANGED <<err, cancelled, trigger, refreshChan, errSenders, timers,
                   gor, conns, cycles, burstN, burstSent, backoffCancel, env>>

\* The same entry while the goroutine of a cancelled invocation is still inside
\* init: its assignments to the handles of the service then race with those of
\* the new attempt.  (If the new attempt is abandoned in its turn, its
\* goroutine takes the place of the older one, which makes no further step.)
InitEnterOverlap ==
    /\ pc = "initEnter"
    /\ orph # "none"
    /\ pc' = "spawn"
    /\ initialized' = FALSE
    /\ wait' = 0
    /\ attempt' = 0
    /\ cancelInFlight' = FALSE
    /\ UNCHANGED data
    /\ staleSenders' = errSenders
    /\ UNCHANGED <<err, cancelled, trigger, refreshChan, errSenders, timers,
                   gor, conns, cycles, burstN, burstSent, backoffCancel, env>>

\* go func() { ... }()
Spawn ==
    /\ pc = "spawn"
    /\ pc' = "sendIn0"
    /\ gpc' = "gstart"
    /\ UNCHANGED data
    /\ UNCHANGED <<initialized, wait, err, cancelled, chans, timers, orph,
                   gblocked, conns, ghost, env>>

\* inChan <- service: handed to the goroutine if it is parked in its select,
\* otherwise the scheduler blocks in the send
MainSend ==
    /\ pc = "sendIn0"
    /\ IF gpc = "gparked"
       THEN pc' = "await" /\ gpc' = "i1"
       ELSE pc' = "sendIn" /\ gpc' = gpc
    /\ UNCHANGED data
    /\ UNCHANGED <<initialized, wait, err, cancelled, chans, timers, orph,
                   gblocked, conns, ghost, env>>

\* select { case <-ctx.Done(): case <-doneChan: case err = <-errChan: }
AwaitSelect ==
    /\ pc = "await"
    /\ \/ /\ cancelled
          /\ pc' = "awaitCtx" /\ gpc' = gpc
       \/ /\ gpc = "gsendDone"
          /\ pc' = "awaitDone" /\ gpc' = "gfin"
       \/ /\ gpc = "gsendErr"
          /\ pc' = "awaitErr" /\ gpc' = "gfin"
       \/ /\ ~cancelled /\ gpc \notin {"gsendDone", "gsendErr"}
          /\ pc' = "awaitParked" /\ gpc' = gpc
    /\ UNCHANGED data
    /\ UNCHANGED <<initialized, wait, err, cancelled, chans, timers, orph,
                   gblocked, conns, ghost, env>>

\* case <-ctx.Done(): return (wait and timer are locals of the invocation).
\* The goroutine of the attempt is left behind: inside init it goes on, and
\* its send on errChan/doneChan finds no receiver.
AwaitCtx ==
    /\ pc = "awaitCtx"
    /\ pc' = "startupSend"
    /\ gpc' = "none"
    /\ orph' = IF gpc \in InitPcs THEN gpc ELSE orph
    /\ gblocked' = (gblocked \/ gpc \in {"gsendDone", "gsendErr"})
    /\ wait' = 0 /\ attempt' = 0
    /\ UNCHANGED data
    /\ UNCHANGED <<initialized, err, cancelled, chans, timers, conns, cycles,
                   burstN, burstSent, backoffCancel, cancelInFlight, env>>

\* case <-doneChan: service.initialized = true; return
AwaitDone ==
    /\ pc = "awaitDone"
    /\ pc' = "startupSend"
    /\ initialized' = TRUE
    /\ wait' = 0 /\ attempt' = 0
    /\ UNCHANGED data
    /\ UNCHANGED <<err, cancelled, chans, timers, gor, conns, cycles, burstN,
                   burstSent, backoffCancel, cancelInFlight, env>>

\* case err = <-errChan: log; timer = time.NewTimer(wait * time.Second)
AwaitErr ==
    /\ pc = "awaitErr"
    /\ pc' = "backoff"
    /\ btFired' = FALSE
    /\ attempt' = attempt + 1
    /\ UNCHANGED data
    /\ UNCHANGED <<initialized, wait, err, cancelled, chans, ect, settleArmed,
                   gor, conns, cycles, burstN, burstSent, backoffCancel,
                   cancelInFlight, env>>

\* select { case <-ctx.Done(): case <-timer.C: }
BackoffSelect ==
    /\ pc = "backoff"
    /\ \/ /\ cancelled
          /\ pc' = "backoffCtx" /\ btFired' = btFired
       \/ /\ btFired
          /\ pc' = "backoffTimer" /\ btFired' = FALSE
       \/ /\ ~cancelled /\ ~btFired
          /\ pc' = "backoffParked" /\ btFired' = btFired
    /\ UNCHANGED data
    /\ UNCHANGED <<initialized, wait, err, cancelled, chans, ect, settleArmed,
                   gor, conns, ghost, env>>

\* case <-ctx.Done(): return
BackoffCtx ==
    /\ pc = "backoffCtx"
    /\ pc' = "startupSend"
    /\ backoffCancel' = TRUE
    /\ wait' = 0 /\ attempt' = 0 /\ btFired' = FALSE
    /\ UNCHANGED data
    /\ UNCHANGED <<initialized, err, cancelled, chans, ect, settleArmed, gor,
                   conns, cycles, burstN, burstSent, cancelInFlight, env>>

\* case <-timer.C: if wait < 60 { wait = wait + 10 }; next iteration
BackoffTimer ==
    /\ pc = "backoffTimer"
    /\ pc' = "spawn"
    /\ wait' = BackoffNext(wait)
    /\ UNCHANGED data
    /\ UNCHANGED <<initialized, err, cancelled, chans, timers, gor, conns,
                   ghost, env>>

\* the runtime fires the backoff timer
BackoffFire ==
    /\ pc \in {"backoff", "backoffParked"}
    /\ ~btFired
    /\ IF pc = "backoffParked"
       THEN pc' = "backoffTimer" /\ btFired' = FALSE
       ELSE pc' = pc /\ btFired' = TRUE
    /\ UNCHANGED data
    /\ UNCHANGED <<initialized, wait, err, cancelled, chans, ect, settleArmed,
                   gor, conns, ghost, env>>

\* ---------------------------------------------------------------------------
\* the goroutine of one init attempt, and Service.init

\* select { case <-ctx.Done(): return; case serviceToInitialize = <-inChan: }
GSelect ==
    /\ gpc = "gstart"
    /\ \/ /\ cancelled
          /\ gpc' = "gexit" /\ pc' = pc
       \/ /\ pc = "sendIn"
          /\ gpc' = "i1" /\ pc' = "await"
       \/ /\ ~cancelled /\ pc # "sendIn"
          /\ gpc' = "gparked" /\ pc' = pc
    /\ UNCHANGED data
    /\ UNCHANGED <<initialized, wait, err, cancelled, chans, timers, orph,
                   gblocked, conns, ghost, env>>

NextInitPc(p) == CASE p = "i1" -> "i2" [] p = "i2" -> "i3" [] p = "i3" -> "i4"
                   [] OTHER -> "gsendDone"

\* The effect of one step of Service.init on the handles of the service:
\*   i1 lxd.ConnectLXDUnix      i2 GetEventsAllProjects
\*   i3 AddHandler              i4 clientv3.New
InitListener(p, ok) ==
    CASE p = "i2" -> IF ok THEN "bare" ELSE "nil"
      [] p = "i3" -> IF ok /\ listener = "bare" THEN "active" ELSE listener
      [] OTHER -> listener
InitLeak(p) == leak \/ (p = "i2" /\ listener = "active")
InitEtcd(p, ok) == IF p = "i4" THEN (IF ok THEN "open" ELSE "nil") ELSE etcd

\* one step of init in the goroutine of the current attempt; after the last
\* step, or at the first failure, doneChan <- struct{}{} or errChan <- err
GInit(p) ==
    /\ gpc = p
    /\ \E ok \in BOOLEAN :
        /\ ok \/ failBudget > 0
        /\ failBudget' = IF ok THEN failBudget ELSE failBudget - 1
        /\ listener' = InitListener(p, ok)
        /\ leak' = InitLeak(p)
        /\ etcd' = InitEtcd(p, ok)
        /\ LET to == IF ok THEN NextInitPc(p) ELSE "gsendErr" IN
             IF to \in {"gsendDone", "gsendErr"} /\ pc = "awaitParked"
             THEN /\ gpc' = "gfin"
                  /\ pc' = IF to = "gsendDone" THEN "awaitDone" ELSE "awaitErr"
             ELSE /\ gpc' = to
                  /\ pc' = pc
    /\ UNCHANGED data
    /\ UNCHANGED <<initialized, wait, err, cancelled, chans, timers, orph,
                   gblocked, ghost, events, closeBudget>>

\* the same step in the goroutine of an abandoned attempt: nobody receives
\* what it sends
OInit(p) ==
    /\ orph = p
    /\ \E ok \in BOOLEAN :
        /\ listener' = InitListener(p, ok)
        /\ leak' = InitLeak(p)
        /\ etcd' = InitEtcd(p, ok)
        /\ LET to == IF ok THEN NextInitPc(p) ELSE "gsendErr" IN
             IF to \in InitPcs
             THEN orph' = to /\ gblocked' = gblocked
             ELSE orph' = "none" /\ gblocked' = TRUE
    /\ UNCHANGED data
    /\ UNCHANGED <<sched, cancelled, chans, timers, gpc, ghost, env>>

\* ---------------------------------------------------------------------------
\* Service.Start: ServiceLoop and RefreshLoop

\* processingTriggerChan <- struct{}{} (blocking: waits while the slot is full)
StartupSend ==
    /\ pc = "startupSend"
    /\ trigger < TriggerCap
    /\ trigger' = trigger + 1
    /\ pc' = "select"
    /\ UNCHANGED data
    /\ UNCHANGED <<initialized, wait, err, cancelled, refreshChan, errSenders,
                   staleSenders,
                   timers, gor, conns, ghost, env>>

\* select { case <-ctx.Done(): case <-ticker.C: case <-service.refreshChan:
\*          case <-processingTriggerChan: case err = <-service.errorChan: }
\* ticker.C (capacity 1) is read here only and holds a value whenever the
\* ticker fired since the last read: that case may be ready at any entry.
RunSelect ==
    /\ pc = "select"
    /\ \/ /\ cancelled
          /\ pc' = "caseCtx"
          /\ UNCHANGED <<err, chans, burstN>>
       \/ /\ pc' = "caseTick"
          /\ UNCHANGED <<err, chans, burstN>>
       \/ /\ refreshChan > 0
          /\ pc' = "caseRefresh"
          /\ refreshChan' = refreshChan - 1
          /\ burstN' = 1
          /\ UNCHANGED <<err, trigger, errSenders, staleSenders>>
       \/ /\ trigger > 0
          /\ pc' = "caseTrigger"
          /\ trigger' = trigger - 1
          /\ UNCHANGED <<err, refreshChan, errSenders, staleSenders, burstN>>
       \/ /\ errSenders > 0
          /\ pc' = "caseError"
          /\ errSenders' = errSenders - 1
          /\ staleSenders' = StaleAfterReceive(staleSenders)
          /\ err' = "async"
          /\ UNCHANGED <<trigger, refreshChan, burstN>>
       \/ /\ ~cancelled /\ refreshChan = 0 /\ trigger = 0 /\ errSenders = 0
          /\ pc' = "selectParked"
          /\ UNCHANGED <<err, chans, burstN>>
    /\ UNCHANGED data
    /\ UNCHANGED <<initialized, wait, cancelled, timers, gor, conns, attempt,
                   cycles, burstSent, backoffCancel, cancelInFlight, env>>

\* service.disconnect(): the listener is disconnected if it is set and active,
\* the store client is closed if it is set and open; a failure of Close is
\* logged and has no other effect
Disconnect ==
    /\ listener' = DisconnectListener(listener)
    /\ etcd' = DisconnectEtcd(etcd)
    /\ \E r \in CloseResults(etcd) :
         closeBudget' = IF r = "nil" THEN closeBudget ELSE closeBudget - 1

\* a variant of CaseCtx in which a failure of Close becomes the error that
\* Start returns
CaseCtxReturningCloseError ==
    /\ pc = "caseCtx"
    /\ pc' = "stopped"
    /\ listener' = DisconnectListener(listener)
    /\ etcd' = DisconnectEtcd(etcd)
    /\ \E r \in CloseResults(etcd) :
         /\ closeBudget' = IF r = "nil" THEN closeBudget ELSE closeBudget - 1
         /\ err' = IF r = "nil" THEN err ELSE r
    /\ settleArmed' = FALSE
    /\ UNCHANGED data
    /\ UNCHANGED <<initialized, wait, cancelled, chans, ect, btFired, gor,
                   leak, ghost, events, failBudget>>

\* case <-ctx.Done(): break ServiceLoop; service.disconnect(); the deferred
\* Stop calls; return err
CaseCtx ==
    /\ pc = "caseCtx"
    /\ pc' = "stopped"
    /\ Disconnect
    /\ settleArmed' = FALSE
    /\ UNCHANGED data
    /\ UNCHANGED <<initialized, wait, err, cancelled, chans, ect, btFired, gor,
                   leak, ghost, events, failBudget>>

\* a variant of CaseTick whose send waits for room in the slot
CaseTickBlocking ==
    /\ pc = "caseTick"
    /\ trigger < TriggerCap
    /\ pc' = "select"
    /\ trigger' = trigger + 1
    /\ UNCHANGED data
    /\ UNCHANGED <<initialized, wait, err, cancelled, refreshChan, errSenders,
                   staleSenders,
                   timers, gor, conns, ghost, env>>

\* case <-ticker.C: non-blocking send on processingTriggerChan
CaseTick ==
    /\ pc = "caseTick"
    /\ pc' = "select"
    /\ trigger' = TrySend(trigger)
    /\ UNCHANGED data
    /\ UNCHANGED <<initialized, wait, err, cancelled, refreshChan, errSenders,
                   staleSenders,
                   timers, gor, conns, ghost, env>>

\* case <-service.refreshChan:
\*   if !emptyChanTimer.Stop() { <-emptyChanTimer.C }; emptyChanTimer.Reset(time.Second)
\* Stop returns false once the timer has fired; the receive then waits for a
\* value in emptyChanTimer.C
CaseRefresh ==
    /\ pc = "caseRefresh"
    /\ ect \in {"running", "inC"}
    /\ ect' = "running"
    /\ pc' = "drain"
    /\ UNCHANGED data
    /\ UNCHANGED <<initialized, wait, err, cancelled, chans, settleArmed,
                   btFired, gor, conns, ghost, env>>

\* EmptyChanLoop: select { case <-service.refreshChan: case <-emptyChanTimer.C:
\*                         default: }
Drain ==
    /\ pc = "drain"
    /\ \/ /\ refreshChan > 0
          /\ refreshChan' = refreshChan - 1
          /\ burstN' = burstN + 1
          /\ UNCHANGED <<pc, ect>>
       \/ /\ ect = "inC"
          /\ ect' = "drained"
          /\ pc' = "enqueue"
          /\ UNCHANGED <<refreshChan, burstN>>
       \/ /\ refreshChan = 0 /\ ect # "inC"
          /\ pc' = "enqueue"
          /\ UNCHANGED <<refreshChan, burstN, ect>>
    /\ UNCHANGED data
    /\ UNCHANGED <<initialized, wait, err, cancelled, trigger, errSenders,
                   staleSenders,
                   settleArmed, btFired, gor, conns, attempt, cycles,
                   burstSent, backoffCancel, cancelInFlight, env>>

\* a variant of Enqueue that sends one trigger for each signal of the burst
EnqueuePerSignal ==
    /\ pc = "enqueue"
    /\ pc' = "armSettle"
    /\ trigger' = trigger + burstN
    /\ burstSent' = burstN
    /\ UNCHANGED data
    /\ UNCHANGED <<initialized, wait, err, cancelled, refreshChan, errSenders,
                   staleSenders,
                   timers, gor, conns, attempt, cycles, burstN, backoffCancel,
                   cancelInFlight, env>>

\* the non-blocking send after EmptyChanLoop
Enqueue ==
    /\ pc = "enqueue"
    /\ pc' = "armSettle"
    /\ trigger' = TrySend(trigger)
    /\ burstSent' = trigger' - trigger
    /\ UNCHANGED data
    /\ UNCHANGED <<initialized, wait, err, cancelled, refreshChan, errSenders,
                   staleSenders,
                   timers, gor, conns, attempt, cycles, burstN, backoffCancel,
                   cancelInFlight, env>>

\* a variant of ArmSettle that arms the timer only when the handling has
\* enqueued a trigger of its own
ArmSettleIfSent ==
    /\ pc = "armSettle"
    /\ pc' = "select"
    /\ settleArmed' = (settleArmed \/ burstSent > 0)
    /\ burstN' = 0
    /\ burstSent' = 0
    /\ UNCHANGED data
    /\ UNCHANGED <<initialized, wait, err, cancelled, chans, ect, btFired, gor,
                   conns, attempt, cycles, backoffCancel, cancelInFlight, env>>

\* waitForDHCPTimer.Reset(config.GetLxd().WaitForDHCP); back to the select
ArmSettle ==
    /\ pc = "armSettle"
    /\ pc' = "select"
    /\ settleArmed' = TRUE
    /\ burstN' = 0
    /\ burstSent' = 0
    /\ UNCHANGED data
    /\ UNCHANGED <<initialized, wait, err, cancelled, chans, ect, btFired, gor,
                   conns, attempt, cycles, backoffCancel, cancelInFlight, env>>

\* a variant of CaseTrigger that starts the refresh without waiting for it
CaseTriggerAsync ==
    /\ pc = "caseTrigger"
    /\ pc' = "select"
    /\ cycles' = IF MayRefresh THEN cycles + 1 ELSE cycles
    /\ UNCHANGED data
    /\ UNCHANGED <<initialized, wait, err, cancelled, chans, timers, gor,
                   conns, attempt, burstN, burstSent, backoffCancel,
                   cancelInFlight, env>>

\* case <-processingTriggerChan: if !service.initialized { continue };
\* lxdInfo = &LxdInfo{}; the call of Populate begins
CaseTrigger ==
    /\ pc = "caseTrigger"
    /\ IF MayRefresh
       THEN pc' = "populate" /\ cycles' = cycles + 1
       ELSE pc' = "select" /\ cycles' = cycles
    /\ lxdInfo' = NewLxdInfo
    /\ UNCHANGED <<lxd, cfg, file, logLevel, store, event>>
    /\ UNCHANGED <<initialized, wait, err, cancelled, chans, timers, gor,
                   conns, attempt, burstN, burstSent, backoffCancel,
                   cancelInFlight, env>>

\* a variant of PopulateReturn that goes on to Persist whatever Populate
\* returned
PopulateReturnIgnoringError ==
    /\ pc = "populate"
    /\ \E failAt \in {0} \cup PopulateFailures(lxd) :
        LET r == Populate(lxd, cfg.containers, failAt) IN
        /\ lxdInfo' = r.info
        /\ pc' = "persistNet"
        /\ err' = IF r.err THEN "populate" ELSE "nil"
    /\ UNCHANGED <<lxd, cfg, file, logLevel, store, event>>
    /\ UNCHANGED <<initialized, wait, cancelled, chans, timers, gor, conns,
                   ghost, env>>

\* err = lxdInfo.Populate(...): on an error disconnect and break RefreshLoop
\* (lxdInfo is not read again before it is replaced: the model resets it)
PopulateReturn ==
    /\ pc = "populate"
    /\ \E failAt \in {0} \cup PopulateFailures(lxd) :
        LET r == Populate(lxd, cfg.containers, failAt) IN
        IF ~r.err
        THEN /\ pc' = "persistNet"
             /\ err' = "nil"
             /\ lxdInfo' = r.info
             /\ UNCHANGED <<listener, etcd, closeBudget, cycles>>
        ELSE /\ pc' = "initEnter"
             /\ err' = "populate"
             /\ lxdInfo' = NewLxdInfo
             /\ Disconnect
             /\ cycles' = cycles - 1
    /\ UNCHANGED <<lxd, cfg, file, logLevel, store, event>>
    /\ UNCHANGED <<initialized, wait, cancelled, chans, timers, gor, leak,
                   attempt, burstN, burstSent, backoffCancel, cancelInFlight,
                   events, failBudget>>

\* etcdClient.Put(ctx, key, value): fails with the context's error once ctx is
\* cancelled, and otherwise fails when the store does
PutResults == IF cancelled THEN {"ctx"} ELSE {"nil", "persist"}

\* whether the store holds the value after a Put that returned r: it does
\* after a success, it does not when the context was already cancelled, and
\* a Put the store failed to acknowledge may or may not have been applied
PutApplied(r) ==
    CASE r = "nil" -> {TRUE} [] r = "ctx" -> {FALSE} [] OTHER -> BOOLEAN

\* a variant of PersistNet that goes on to the containers key after a failure
PersistNetGoingOn ==
    /\ pc = "persistNet"
    /\ \E r \in PutResults : \E applied \in PutApplied(r) :
        /\ store' = IF applied
                    THEN Put(store, NetworksKey(cfg.hostname),
                             StoredValue(lxdInfo, MarshalNetworks(lxdInfo)))
                    ELSE store
        /\ pc' = "persistCont"
        /\ err' = IF r = "nil" THEN err ELSE r
    /\ UNCHANGED <<lxd, cfg, file, logLevel, lxdInfo, event>>
    /\ UNCHANGED <<initialized, wait, cancelled, chans, timers, gor, conns,
                   ghost, env>>

\* a variant of PersistNet that puts the containers key first
PersistNetContainersFirst ==
    /\ pc = "persistNet"
    /\ \E r \in PutResults : \E applied \in PutApplied(r) :
        /\ store' = IF applied
                    THEN Put(store, ContainersKey(cfg.hostname),
                             StoredValue(lxdInfo, MarshalContainers(lxdInfo)))
                    ELSE store
        /\ IF r = "nil"
           THEN /\ pc' = "persistCont"
                /\ UNCHANGED <<err, listener, etcd, closeBudget, cycles,
                               lxdInfo>>
           ELSE /\ pc' = "initEnter"
                /\ err' = r
                /\ lxdInfo' = NewLxdInfo
                /\ Disconnect
                /\ cycles' = cycles - 1
    /\ UNCHANGED <<lxd, cfg, file, logLevel, event>>
    /\ UNCHANGED <<initialized, wait, cancelled, chans, timers, gor, leak,
                   attempt, burstN, burstSent, backoffCancel, cancelInFlight,
                   events, failBudget>>

\* Persist, first half: Put of /lxd/<hostname>/networks
PersistNet ==
    /\ pc = "persistNet"
    /\ \E r \in PutResults : \E applied \in PutApplied(r) :
        /\ store' = IF applied
                    THEN Put(store, NetworksKey(cfg.hostname),
                             StoredValue(lxdInfo, MarshalNetworks(lxdInfo)))
                    ELSE store
        /\ IF r = "nil"
           THEN /\ pc' = "persistCont"
                /\ UNCHANGED <<err, listener, etcd, closeBudget, cycles,
                               lxdInfo>>
           ELSE /\ pc' = "initEnter"
                /\ err' = r
                /\ lxdInfo' = NewLxdInfo
                /\ Disconnect
                /\ cycles' = cycles - 1
    /\ UNCHANGED <<lxd, cfg, file, logLevel, event>>
    /\ UNCHANGED <<initialized, wait, cancelled, chans, timers, gor, leak,
                   attempt, burstN, burstSent, backoffCancel, cancelInFlight,
                   events, failBudget>>

\* Persist, second half: Put of /lxd/<hostname>/containers, and the return
PersistCont ==
    /\ pc = "persistCont"
    /\ \E r \in PutResults : \E applied \in PutApplied(r) :
        /\ store' = IF applied
                    THEN Put(store, ContainersKey(cfg.hostname),
                             StoredValue(lxdInfo, MarshalContainers(lxdInfo)))
                    ELSE store
        /\ err' = r
        /\ cycles' = cycles - 1
        /\ IF r = "nil"
           THEN /\ pc' = "select"
                /\ UNCHANGED <<listener, etcd, closeBudget>>
           ELSE /\ pc' = "initEnter"
                /\ Disconnect
    /\ lxdInfo' = NewLxdInfo
    /\ UNCHANGED <<lxd, cfg, file, logLevel, event>>
    /\ UNCHANGED <<initialized, wait, cancelled, chans, timers, gor, leak,
                   attempt, burstN, burstSent, backoffCancel, cancelInFlight,
                   events, failBudget>>

\* a variant of CaseError that restarts the acquisition without disconnect
CaseErrorKeeping ==
    /\ pc = "caseError"
    /\ pc' = "initEnter"
    /\ UNCHANGED data
    /\ UNCHANGED <<initialized, wait, err, cancelled, chans, timers, gor,
                   conns, ghost, env>>

\* case err = <-service.errorChan: service.disconnect(); break RefreshLoop
CaseError ==
    /\ pc = "caseError"
    /\ pc' = "initEnter"
    /\ Disconnect
    /\ UNCHANGED data
    /\ UNCHANGED <<initialized, wait, err, cancelled, chans, timers, gor, leak,
                   ghost, events, failBudget>>

\* ---------------------------------------------------------------------------
\* the environment

\* the caller cancels ctx: a goroutine parked in a select with a ctx.Done()
\* case is woken on that case
Cancel ==
    /\ ~cancelled
    /\ cancelled' = TRUE
    /\ pc' = CASE pc = "awaitParked" -> "awaitCtx"
               [] pc = "backoffParked" -> "backoffCtx"
               [] pc = "selectParked" -> "caseCtx"
               [] OTHER -> pc
    /\ gpc' = IF gpc = "gparked" THEN "gexit" ELSE gpc
    /\ cancelInFlight' = (pc \in InFlightPcs)
    /\ UNCHANGED data
    /\ UNCHANGED <<initialized, wait, err, chans, timers, orph, gblocked,
                   conns, attempt, cycles, burstN, burstSent, backoffCancel,
                   env>>

\* the ticker fires while the scheduler is parked in RunSelect
Tick ==
    /\ pc = "selectParked"
    /\ pc' = "caseTick"
    /\ UNCHANGED data
    /\ UNCHANGED <<initialized, wait, err, cancelled, chans, timers, gor,
                   conns, ghost, env>>

\* emptyChanTimer fires: its value is put in emptyChanTimer.C.  Only
\* CaseRefresh and Drain read the timer, so a firing elsewhere is taken when
\* the scheduler is there.
EmptyChanTimerFire ==
    /\ pc \in {"caseRefresh", "drain"}
    /\ ect = "running"
    /\ ect' = "inC"
    /\ UNCHANGED data
    /\ UNCHANGED <<sched, cancelled, chans, settleArmed, btFired, gor, conns,
                   ghost, env>>

\* waitForDHCPTimer fires: its function does a non-blocking send on
\* processingTriggerChan
SettleFire ==
    /\ settleArmed
    /\ settleArmed' = FALSE
    /\ IF pc = "selectParked"
       THEN pc' = "caseTrigger" /\ trigger' = trigger
       ELSE pc' = pc /\ trigger' = TrySend(trigger)
    /\ UNCHANGED data
    /\ UNCHANGED <<initialized, wait, err, cancelled, refreshChan, errSenders,
                   staleSenders,
                   ect, btFired, gor, conns, ghost, env>>

\* some listener with the lifecycle handler installed is active
Listening == listener = "active" \/ leak

\* The lifecycle handler init installs, called with the event ev:
\*   err := service.HandleLxdEvent(event); if err != nil { service.errorChan <- err }
\* A send on refreshChan is handed to a scheduler parked in RunSelect, is
\* buffered otherwise, and waits when the buffer is full; a send on errorChan
\* is handed to a parked scheduler and waits otherwise.
Handler(ev) ==
    /\ Listening
    /\ LET r == HandleLxdEvent(ev) IN
         CASE r.err ->
                /\ IF pc = "selectParked"
                   THEN pc' = "caseError" /\ err' = "async"
                        /\ errSenders' = errSenders
                   ELSE pc' = pc /\ err' = err /\ errSenders' = errSenders + 1
                /\ UNCHANGED <<refreshChan, burstN, staleSenders>>
           [] ~r.err /\ r.signals > 0 ->
                /\ IF pc = "selectParked"
                   THEN /\ pc' = "caseRefresh"
                        /\ burstN' = 1
                        /\ refreshChan' = refreshChan
                   ELSE /\ refreshChan < RefreshChanCap
                        /\ pc' = pc
                        /\ burstN' = burstN
                        /\ refreshChan' = refreshChan + 1
                /\ UNCHANGED <<err, errSenders, staleSenders>>
           [] OTHER -> UNCHANGED <<pc, err, errSenders, staleSenders,
                                   refreshChan, burstN>>
    /\ UNCHANGED <<initialized, wait, cancelled, trigger, timers, gor, conns,
                   attempt, cycles, burstSent, backoffCancel, cancelInFlight,
                   failBudget, closeBudget, lxd, cfg, file, logLevel,
                   lxdInfo,
                   store>>

\* the handler is called with an event whose action starts with "instance-" or
\* "network-": HandleLxdEvent does refreshChan <- struct{}{}
EventSignal ==
    /\ events < MaxEvents
    /\ events' = events + 1
    /\ Handler(InstanceStarted)
    /\ UNCHANGED event

\* the handler is called with an event whose metadata cannot be decoded:
\* HandleLxdEvent returns an error and the handler does service.errorChan <- err
EventUndecodable ==
    /\ events < MaxEvents
    /\ events' = events + 1
    /\ Handler(Undecodable)
    /\ UNCHANGED event

\* the handler is called with the event that is pending
Deliver ==
    /\ event.pending
    /\ event' = [event EXCEPT !.pending = FALSE]
    /\ Handler(event)
    /\ UNCHANGED events

\* a variant of ToggleDebug that also marks the service uninitialized
ToggleDebugResetting ==
    /\ logLevel' = ToggleDebugLevel(logLevel)
    /\ initialized' = FALSE
    /\ UNCHANGED <<pc, wait, err, cancelled, chans, timers, gor, conns, env,
                   ghost, lxd, cfg, file, lxdInfo, store, event>>

\* Service.ToggleDebug, called from the signal goroutine of main on SIGUSR2
ToggleDebug ==
    /\ logLevel' = ToggleDebugLevel(logLevel)
    /\ UNCHANGED <<sched, cancelled, chans, timers, gor, conns, env, ghost,
                   lxd, cfg, file, lxdInfo, store, event>>

\* the state of the host changes (containers and networks come and go)
HostChange ==
    /\ lxd.ver < MaxHostChanges
    /\ \E h \in HostStates : lxd' = [h EXCEPT !.ver = lxd.ver + 1]
    /\ UNCHANGED <<sched, cancelled, chans, timers, gor, conns, env, ghost,
                   cfg, file, logLevel, lxdInfo, store, event>>

\* ---------------------------------------------------------------------------

Next ==
    \/ InitEnter \/ Spawn \/ MainSend \/ AwaitSelect \/ AwaitCtx \/ AwaitDone
    \/ AwaitErr \/ BackoffSelect \/ BackoffCtx \/ BackoffTimer \/ BackoffFire
    \/ GSelect
    \/ \E p \in InitPcs : GInit(p)
    \/ \E p \in InitPcs : OInit(p)
    \/ StartupSend \/ RunSelect \/ CaseCtx \/ CaseTick \/ CaseRefresh \/ Drain
    \/ Enqueue \/ ArmSettle \/ CaseTrigger \/ PopulateReturn \/ PersistNet
    \/ PersistCont \/ CaseError
    \/ Cancel \/ Tick \/ EmptyChanTimerFire \/ SettleFire
    \/ EventSignal \/ EventUndecodable

Spec == Init /\ [][Next]_vars

\* one invocation of initServiceWithRetries taken alone, from the state in
\* which Start first calls it, with up to MaxAttempts failing attempts
InitAlone ==
    /\ Start0
    /\ failBudget = MaxAttempts
    /\ closeBudget = 0
    /\ lxd = Host0 /\ cfg = Cfg0 /\ store = StoreAfterRun
    /\ event = NoEvent

NextInitAlone ==
    \/ InitEnter \/ Spawn \/ MainSend \/ AwaitSelect \/ AwaitCtx \/ AwaitDone
    \/ AwaitErr \/ BackoffSelect \/ BackoffCtx \/ BackoffTimer \/ BackoffFire
    \/ GSelect
    \/ \E p \in InitPcs : GInit(p)
    \/ \E p \in InitPcs : OInit(p)
    \/ Cancel

InitSpec == InitAlone /\ [][NextInitAlone]_vars

\* Start with one lifecycle event, of any kind, delivered to the handler once
\* a listener is active; no init step fails and ctx is not cancelled
InitClassify ==
    /\ Start0
    /\ failBudget = 0
    /\ closeBudget = 0
    /\ lxd = Host0 /\ cfg = Cfg0 /\ store = StoreAfterRun
    /\ event \in EventInputs

NextClassify ==
    \/ InitEnter \/ Spawn \/ MainSend \/ AwaitSelect \/ AwaitDone \/ GSelect
    \/ \E p \in InitPcs : GInit(p)
    \/ StartupSend \/ RunSelect \/ CaseTick \/ CaseRefresh \/ Drain
    \/ Enqueue \/ ArmSettle \/ CaseTrigger \/ PopulateReturn \/ PersistNet
    \/ PersistCont \/ CaseError
    \/ Tick \/ EmptyChanTimerFire \/ SettleFire
    \/ Deliver

ClassifySpec == InitClassify /\ [][NextClassify]_vars

\* Start on any host of HostInputs with any configuration of CfgInputs and an
\* empty store; no lifecycle event, no init step fails, ctx is not cancelled
InitSnapshot ==
    /\ Start0
    /\ failBudget = 0
    /\ closeBudget = 0
    /\ lxd \in HostInputs /\ cfg \in CfgInputs /\ store = Store0
    /\ event = NoEvent

NextSnapshot ==
    \/ InitEnter \/ Spawn \/ MainSend \/ AwaitSelect \/ AwaitDone \/ GSelect
    \/ \E p \in InitPcs : GInit(p)
    \/ StartupSend \/ RunSelect \/ CaseTick \/ CaseTrigger \/ PopulateReturn
    \/ PersistNet \/ PersistCont
    \/ Tick

SnapshotSpec == InitSnapshot /\ [][NextSnapshot]_vars

\* Start on a host whose state changes during the run, under either hostname,
\* with or without the records of an earlier run in the store; no lifecycle
\* event, no init step fails, ctx may be cancelled
Cfg1 == [hostname |-> "host2", containers |-> <<>>]

InitData ==
    /\ Start0
    /\ failBudget = 0
    /\ closeBudget = 0
    /\ lxd = Host0 /\ cfg \in {Cfg0, Cfg1}
    /\ store \in {Store0, StoreAfterRun}
    /\ event = NoEvent

NextData ==
    \/ InitEnter \/ Spawn \/ MainSend \/ AwaitSelect \/ AwaitCtx \/ AwaitDone
    \/ GSelect
    \/ \E p \in InitPcs : GInit(p)
    \/ \E p \in InitPcs : OInit(p)
    \/ StartupSend \/ RunSelect \/ CaseCtx \/ CaseTick \/ CaseTrigger
    \/ PopulateReturn \/ PersistNet \/ PersistCont
    \/ Cancel \/ Tick \/ HostChange

DataSpec == InitData /\ [][NextData]_vars

\* Start with ToggleDebug called at any time: one lifecycle event, of either
\* kind, is delivered once a listener is active; no init step fails; ctx may
\* be cancelled
InitToggle ==
    /\ Start0
    /\ failBudget = 0
    /\ closeBudget = 0
    /\ lxd = Host0 /\ cfg = Cfg0 /\ store = StoreAfterRun
    /\ event \in {InstanceStarted, Undecodable}

NextToggle ==
    \/ InitEnter \/ Spawn \/ MainSend \/ AwaitSelect \/ AwaitCtx \/ AwaitDone
    \/ GSelect
    \/ \E p \in InitPcs : GInit(p)
    \/ \E p \in InitPcs : OInit(p)
    \/ StartupSend \/ RunSelect \/ CaseCtx \/ CaseTick \/ CaseRefresh \/ Drain
    \/ Enqueue \/ ArmSettle \/ CaseTrigger \/ PopulateReturn \/ PersistNet
    \/ PersistCont \/ CaseError
    \/ Cancel \/ Tick \/ EmptyChanTimerFire \/ SettleFire
    \/ Deliver \/ ToggleDebug

ToggleSpec == InitToggle /\ [][NextToggle]_vars

\* Start where a new invocation of initServiceWithRetries may begin while the
\* goroutine of a cancelled one is still inside init; no init step of a
\* current attempt fails
InitOverlap ==
    /\ Start0
    /\ failBudget = 0
    /\ closeBudget = 0
    /\ lxd = Host0 /\ cfg = Cfg0 /\ store = StoreAfterRun
    /\ event = NoEvent

NextOverlap ==
    \/ InitEnter \/ InitEnterOverlap \/ Spawn \/ MainSend \/ AwaitSelect
    \/ AwaitCtx \/ AwaitDone
    \/ GSelect
    \/ \E p \in InitPcs : GInit(p)
    \/ \E p \in InitPcs : OInit(p)
    \/ StartupSend \/ RunSelect \/ CaseCtx \/ CaseTick \/ CaseRefresh \/ Drain
    \/ Enqueue \/ ArmSettle \/ CaseTrigger \/ PopulateReturn \/ PersistNet
    \/ PersistCont \/ CaseError
    \/ Cancel \/ Tick \/ EmptyChanTimerFire \/ SettleFire
    \/ EventSignal \/ EventUndecodable

OverlapSpec == InitOverlap /\ [][NextOverlap]_vars

\* Start where calls of etcdClient.Close may fail; no init step fails
InitClose ==
    /\ Start0
    /\ failBudget = 0
    /\ closeBudget = MaxCloseFailures
    /\ lxd = Host0 /\ cfg = Cfg0 /\ store = StoreAfterRun
    /\ event = NoEvent

NextClose ==
    \/ InitEnter \/ Spawn \/ MainSend \/ AwaitSelect \/ AwaitCtx \/ AwaitDone
    \/ GSelect
    \/ \E p \in InitPcs : GInit(p)
    \/ \E p \in InitPcs : OInit(p)
    \/ StartupSend \/ RunSelect \/ CaseCtx \/ CaseTick \/ CaseRefresh \/ Drain
    \/ Enqueue \/ ArmSettle \/ CaseTrigger \/ PopulateReturn \/ PersistNet
    \/ PersistCont \/ CaseError
    \/ Cancel \/ Tick \/ EmptyChanTimerFire \/ SettleFire
    \/ EventSignal \/ EventUndecodable

CloseSpec == InitClose /\ [][NextClose]_vars

\* main from the call of ReadInConfig, with any configuration file; no init
\* step fails and ctx is not cancelled
InitConfig ==
    /\ pc = "readInConfig"
    /\ Service0
    /\ file \in FileInputs
    /\ failBudget = 0
    /\ closeBudget = 0
    /\ lxd = Host0 /\ cfg = CfgZero /\ store = StoreAfterRun
    /\ event = NoEvent

NextConfig ==
    \/ ReadInConfig \/ MainStart
    \/ InitEnter \/ Spawn \/ MainSend \/ AwaitSelect \/ AwaitDone
    \/ GSelect
    \/ \E p \in InitPcs : GInit(p)
    \/ StartupSend \/ RunSelect \/ CaseTrigger \/ PopulateReturn \/ PersistNet
    \/ PersistCont

ConfigSpec == InitConfig /\ [][NextConfig]_vars

\* ---------------------------------------------------------------------------
\* Properties

\* The scheduler is blocked in an operation that nothing can complete:
\* the send on inChan after the goroutine returned on ctx.Done(), the startup
\* send on a full trigger slot (the scheduler is the slot's only receiver), or
\* the receive from emptyChanTimer.C after the timer's value was consumed.
SchedulerStuck ==
    \/ pc = "sendIn" /\ gpc = "gexit"
    \/ pc = "startupSend" /\ trigger = TriggerCap
    \/ pc = "caseRefresh" /\ ect = "drained"

\* C1: single-flight.  At most one refresh cycle is in progress; a cycle is in
\* progress exactly while the scheduler is inside Populate or Persist, and no
\* cycle is in progress when a trigger has just been consumed, so no Populate
\* begins before the previous cycle has returned.
C1_SingleFlight ==
    /\ cycles <= 1
    /\ (cycles = 1) = (pc \in InFlightPcs)
    /\ (pc = "caseTrigger" => cycles = 0)

\* a further trigger is pending while a refresh cycle is in progress
C1_Witness == pc \in InFlightPcs /\ trigger = TriggerCap /\ cycles = 1

\* C2: Populate or Persist runs only while initialized is true; hence a
\* trigger consumed while initialized is false starts neither.
C2_RefreshOnlyInitialized == pc \in InFlightPcs => initialized

\* a trigger has been consumed while initialized is false, after a shutdown
\* cancelled the acquisition
C2_Witness == pc = "caseTrigger" /\ ~initialized /\ cancelled

\* C3: the trigger slot holds at most one entry.
C3_AtMostOnePending == trigger <= TriggerCap

\* the debounce handling found the slot occupied and dropped its trigger
C3_Witness ==
    pc = "armSettle" /\ burstSent = 0 /\ trigger = TriggerCap /\ initialized /\ ~cancelled

\* C4: once the context is cancelled the scheduler is never blocked for ever.
C4_ShutdownHonoured == cancelled => ~SchedulerStuck

\* C5 as claimed: every debounced burst enqueues exactly one trigger of its own
\* (stated for an initialised service with no shutdown requested).
C5_ExactlyOnePerBurst ==
    (pc = "armSettle" /\ initialized /\ ~cancelled) => burstSent = 1

\* C5 as amended: a debounce handling that received N >= 1 signals enqueues at
\* most one trigger, whatever N, and leaves exactly one trigger pending (its
\* own, or the one that was already pending); it ends by arming the settle
\* timer, and an armed settle timer, when it fires or is stopped, adds at most
\* one trigger and never overfills the slot.
C5_AtMostOnePerBurst ==
    /\ [](pc = "armSettle" =>
            /\ burstN >= 1
            /\ burstSent \in {0, 1}
            /\ trigger = TriggerCap)
    /\ [][(pc = "armSettle" /\ pc' = "select") => settleArmed']_vars
    /\ [][(settleArmed /\ ~settleArmed') =>
            (trigger' - trigger \in {0, 1} /\ trigger' <= TriggerCap)]_vars

\* a burst of two signals or more was coalesced into one trigger
C5_Witness ==
    pc = "armSettle" /\ burstN >= 2 /\ burstSent = 1 /\ initialized /\ ~cancelled

\* C6: after a Persist error and the following successful acquisition, the
\* startup send finds the slot empty, so that it does not block and exactly
\* one startup trigger is pending.
C6_StartupAfterPersistError ==
    (pc = "startupSend" /\ initialized /\ err = "persist") => trigger = 0

\* C7: once initServiceWithRetries has returned on the cancellation seen in
\* its backoff wait, init is not called again and the scheduler is not blocked
\* on its way to the stopped state.
C7_CancellableBackoff ==
    backoffCancel => (gpc \notin InitPcs /\ ~SchedulerStuck)

\* C8: while no shutdown is requested, a signal that is queued in refreshChan
\* or that the scheduler is handling is followed by a Populate call; so the
\* scheduler is not blocked for ever with such a signal.
C8_SignalFollowedByRefresh ==
    (~cancelled /\ (refreshChan > 0 \/ pc \in {"caseRefresh", "drain", "enqueue"}))
        => ~SchedulerStuck

\* C9: a cancellation that arrives while Populate or Persist is in flight
\* does not make that call fail.
C9_InFlightNotAborted == ~(cancelInFlight /\ err = "ctx")

\* C10: in the backoff wait after the k-th failed attempt of an invocation the
\* wait is min(10 * (k - 1), 60), and the wait never exceeds 60.
C10_BackoffSequence ==
    /\ wait <= BackoffCeiling
    /\ pc \in {"backoff", "backoffParked", "backoffCtx", "backoffTimer"}
        => (attempt >= 1 /\ wait = Min(BackoffStep * (attempt - 1), BackoffCeiling))

\* the wait after the eighth failure is 60, as after the seventh
C10_Witness == pc = "backoff" /\ attempt = 8 /\ wait = BackoffCeiling

\* C11: when Start has returned, no host event session and no store client
\* opened by the service is open: the listener referenced by the service is
\* not active, no unreferenced listener is active, and the store client is
\* not open.
C11_ReleasedAtStop ==
    pc = "stopped" =>
        (listener \notin {"bare", "active"} /\ ~leak /\ etcd # "open")

\* C12: the value Start will return is the last error of the run: once it is
\* an error, it is only ever replaced by another error.
C12_LastErrorKept == [][err # "nil" => err' # "nil"]_vars

\* C13: no invocation of the event handler is waiting for the scheduler to
\* receive from errorChan.
C13_DeliveryNeverBlocks == errSenders = 0

\* C14: partial snapshots are never published.  A snapshot is complete when
\* Populate ran to its end without a failing host query.  Persist is only
\* ever entered with a complete snapshot, every value the service has put in
\* the store was taken from a complete snapshot, and the step in which
\* Populate returns an error leaves the store as it is, records the error and
\* leaves the RefreshLoop.
C14_NoPartialPublished ==
    /\ [](/\ pc \in {"persistNet", "persistCont"} => lxdInfo.complete
          /\ \A k \in StoreKeys : store[k].present => store[k].complete)
    /\ [][pc = "populate" /\ pc' = "initEnter" =>
             store' = store /\ err' = "populate"]_vars

\* Populate failed while the host had moved on from the snapshot in the store
C14_Witness ==
    /\ pc = "initEnter" /\ err = "populate" /\ ~cancelled
    /\ store[<<"/lxd/", cfg.hostname, "/networks">>].present
    /\ store[<<"/lxd/", cfg.hostname, "/networks">>].ver < lxd.ver

\* C15: Persist puts the networks key, then the containers key.  The step
\* that passes from the first Put to the second has stored the networks of
\* the snapshot and not touched the containers key; when the first Put fails
\* Persist returns its error and the containers key is not touched; Persist
\* returns nil only out of the second Put, with both keys holding the values
\* of the snapshot; when the second Put fails an error is returned and the
\* networks key holds the networks of the snapshot.
C15_PersistOrder ==
    [][LET nk == <<"/lxd/", cfg.hostname, "/networks">>
           ck == <<"/lxd/", cfg.hostname, "/containers">>
           nv == StoredValue(lxdInfo, MarshalNetworks(lxdInfo))
           cv == StoredValue(lxdInfo, MarshalContainers(lxdInfo))
       IN  /\ (pc = "persistNet" /\ pc' = "persistCont") =>
                 store'[nk] = nv /\ store'[ck] = store[ck] /\ err' = err
           /\ (pc = "persistNet" /\ pc' = "initEnter") =>
                 err' \in {"persist", "ctx"} /\ store'[ck] = store[ck]
           /\ (pc = "persistNet" /\ pc' # pc) =>
                 pc' \in {"persistCont", "initEnter"}
           /\ (pc = "persistCont" /\ pc' = "select") =>
                 err' = "nil" /\ store'[nk] = nv /\ store'[ck] = cv
           /\ (pc = "persistCont" /\ pc' = "initEnter") =>
                 err' \in {"persist", "ctx"} /\ store'[nk] = nv
           /\ (pc = "persistCont" /\ pc' # pc) =>
                 pc' \in {"select", "initEnter"}]_vars

\* Persist has failed with the networks key of a newer snapshot than the
\* containers key
C15_Witness ==
    /\ pc = "initEnter" /\ err = "persist"
    /\ store[<<"/lxd/", cfg.hostname, "/networks">>].present
    /\ store[<<"/lxd/", cfg.hostname, "/containers">>].present
    /\ store[<<"/lxd/", cfg.hostname, "/networks">>].ver
         > store[<<"/lxd/", cfg.hostname, "/containers">>].ver

\* C16: the step in which Persist returns nil leaves both keys present and
\* holding the networks and the containers of one snapshot, the one of the
\* cycle, whatever the keys held before (values of different snapshots after
\* a Persist that failed between its two Puts).
C16_SameSnapshotAfterPersist ==
    [][(pc \in {"persistNet", "persistCont"} /\ pc' = "select") =>
         \E snapshot \in {lxdInfo} :
            /\ store'[<<"/lxd/", cfg.hostname, "/networks">>]
                 = [present |-> TRUE, ver |-> snapshot.ver, complete |-> TRUE,
                    json |-> MarshalNetworks(snapshot)]
            /\ store'[<<"/lxd/", cfg.hostname, "/containers">>]
                 = [present |-> TRUE, ver |-> snapshot.ver, complete |-> TRUE,
                    json |-> MarshalContainers(snapshot)]]_vars

\* a cycle has built its snapshot and is about to persist it over keys that
\* an earlier, failed Persist has left with values of different snapshots
C16_Witness ==
    /\ pc = "persistNet" /\ ~cancelled /\ lxdInfo.complete
    /\ store[<<"/lxd/", cfg.hostname, "/networks">>].present
    /\ store[<<"/lxd/", cfg.hostname, "/containers">>].present
    /\ store[<<"/lxd/", cfg.hostname, "/networks">>].ver
         # store[<<"/lxd/", cfg.hostname, "/containers">>].ver
    /\ lxdInfo.ver > store[<<"/lxd/", cfg.hostname, "/networks">>].ver

\* C17: the classifier.  In the step that hands an event to the handler, the
\* number of signals that enter refreshChan (buffered, or taken at once by
\* the parked scheduler) and the number of errors handed to errorChan are:
\* one error and no signal when the metadata cannot be decoded; otherwise no
\* error, and one signal exactly when the action label begins with
\* "instance-" or with "network-", none for any other label.
C17_Classifier ==
    [][(event.pending /\ ~event'.pending) =>
         LET signals == (refreshChan' - refreshChan)
                          + (IF pc = "selectParked" /\ pc' = "caseRefresh"
                             THEN 1 ELSE 0)
             errors == (errSenders' - errSenders)
                          + (IF pc = "selectParked" /\ pc' = "caseError"
                             THEN 1 ELSE 0)
             begins(prefix) ==
                 \E i \in 0..Len(event.action) :
                     SubSeq(event.action, 1, i) = prefix
             label == begins(<<"i", "n", "s", "t", "a", "n", "c", "e", "-">>)
                        \/ begins(<<"n", "e", "t", "w", "o", "r", "k", "-">>)
         IN  /\ ~event.decodable => errors = 1 /\ signals = 0
             /\ event.decodable /\ label => errors = 0 /\ signals = 1
             /\ event.decodable /\ ~label => errors = 0 /\ signals = 0]_vars

\* a network-started event has been classified and its signal is buffered
C17_Witness ==
    /\ ~event.pending /\ event.decodable
    /\ event.action = <<"n", "e", "t", "w", "o", "r", "k", "-",
                        "s", "t", "a", "r", "t", "e", "d">>
    /\ refreshChan = 1

\* C18: in every snapshot Populate has produced, for every container of the
\* host, default-ipv4 (default-ipv6) is the list, in the order of the host's
\* report, of the address/netmask strings of the inet (other) addresses of
\* the device whose name is the configured default interface of the
\* container, and is the empty list when the container has no such device
\* (its table entry names none, or the table has no entry for it).
C18_DefaultAddresses ==
    pc \in {"persistNet", "persistCont"} =>
        \A i \in 1..Len(lxd.containers) :
            LET c == lxd.containers[i]
                info == lxdInfo.Containers[c.name]
                iface == IF c.name \in DOMAIN cfg.containers
                         THEN cfg.containers[c.name].DefaultInterface ELSE ""
                v4(a) == a.family = "inet"
                v6(a) == a.family # "inet"
                str(a) == <<a.address, "/", a.netmask>>
                list(s) == [nil |-> FALSE, elems |-> [j \in 1..Len(s) |-> str(s[j])]]
            IN  IF iface \in DOMAIN c.devices
                THEN /\ info.DefaultIPv4
                          = list(SelectSeq(c.devices[iface].addresses, v4))
                     /\ info.DefaultIPv6
                          = list(SelectSeq(c.devices[iface].addresses, v6))
                ELSE /\ info.DefaultIPv4 = list(<<>>)
                     /\ info.DefaultIPv6 = list(<<>>)

\* C19: every container the host reports has, in the record published under
\* the containers key, the status the host reports and the node_ip and
\* default_interface of its entry in the configured table, both "" when the
\* table has no entry for it; and the host and configuration of the
\* end-to-end scenario give web1 default_ipv4 ["10.0.0.5/24"], node_ip
\* "10.0.0.5" and status "Running".
C19_PublishedRecord ==
    LET published == store[<<"/lxd/", cfg.hostname, "/containers">>] IN
    published.present =>
        /\ \A i \in 1..Len(lxd.containers) :
              LET c == lxd.containers[i]
                  rec == published.json[c.name]
                  known == c.name \in DOMAIN cfg.containers
              IN  /\ rec.status = c.status
                  /\ rec.node_ip
                       = (IF known THEN cfg.containers[c.name].NodeIP ELSE "")
                  /\ rec.default_interface
                       = (IF known THEN cfg.containers[c.name].DefaultInterface
                          ELSE "")
        /\ (lxd = Host0 /\ cfg = Cfg0) =>
              /\ published.json["web1"].default_ipv4
                   = [kind |-> "array", items |-> <<<<"10.0.0.5", "/", "24">>>>]
              /\ published.json["web1"].node_ip = "10.0.0.5"
              /\ published.json["web1"].status = "Running"

\* the containers record of the end-to-end scenario has been published
C19_Witness ==
    /\ lxd = Host0 /\ cfg = Cfg0
    /\ store[<<"/lxd/", "host1", "/containers">>].present
    /\ pc = "select"

\* C20: no step changes the value of a key of the store other than
\* /lxd/<hostname>/networks, changed by the first Put of Persist only, and
\* /lxd/<hostname>/containers, changed by the second Put only, with
\* <hostname> the configured hostname; and no step removes a key.
C20_OnlyTheTwoKeys ==
    [][\A k \in StoreKeys :
          /\ store'[k] # store[k] =>
                \/ k = <<"/lxd/", cfg.hostname, "/networks">>
                     /\ pc = "persistNet"
                \/ k = <<"/lxd/", cfg.hostname, "/containers">>
                     /\ pc = "persistCont"
          /\ store[k].present => store'[k].present]_vars

\* host1 has published both keys from a state of the host later than the
\* initial one, next to the records of host2 and other data
C20_Witness ==
    /\ cfg.hostname = "host1"
    /\ store[<<"/lxd/", "host1", "/networks">>].ver > 0
    /\ store[<<"/lxd/", "host1", "/containers">>].ver > 0
    /\ store[<<"/lxd/", "host2", "/networks">>] = Foreign
    /\ store[<<"/lxd/", "host2", "/containers">>] = Foreign
    /\ store[<<"/registry">>] = Foreign
    /\ ~store[<<"/lxd/", "/containers">>].present

\* C21: a call of ToggleDebug, at any point of a run of Start, changes the
\* log level and nothing else: the initialized flag, the handles, the trigger
\* slot, refreshChan, the senders on errorChan, the store, the snapshot, the
\* timers, the goroutines and the scheduler's position are as before.
C21_ToggleFrame ==
    [][logLevel' # logLevel =>
         /\ initialized' = initialized
         /\ listener' = listener /\ leak' = leak /\ etcd' = etcd
         /\ trigger' = trigger /\ refreshChan' = refreshChan
         /\ errSenders' = errSenders
         /\ store' = store /\ lxdInfo' = lxdInfo
         /\ pc' = pc /\ err' = err /\ wait' = wait /\ cancelled' = cancelled
         /\ timers' = timers /\ gor' = gor]_vars

\* the level has been changed while a refresh was in flight with a signal
\* queued in refreshChan
C21_Witness ==
    /\ logLevel = "DEBUG" /\ pc = "persistNet" /\ refreshChan = 1
    /\ initialized /\ ~cancelled

\* C30: ToggleDebug toggles between INFO and DEBUG: a call at INFO sets
\* DEBUG and a call at DEBUG sets INFO.
C30_TwoLevelToggle ==
    [][logLevel' # logLevel =>
         /\ logLevel = "INFO" => logLevel' = "DEBUG"
         /\ logLevel = "DEBUG" => logLevel' = "INFO"]_vars

\* C22: recovery after a fatal error of the RefreshLoop.  The step in which
\* Populate or Persist returns an error, or in which an error received from
\* errorChan is handled, has called disconnect (the listener the service
\* references is not active and the store client is not open after it) and
\* leads to the entry of initServiceWithRetries; while an invocation of
\* initServiceWithRetries is making its attempts initialized is false; it
\* becomes true only when an attempt has reported success; and Populate is
\* only entered from the trigger case with initialized true.
C22_RecoveryOrder ==
    /\ [](pc \in {"spawn", "sendIn0", "sendIn", "await", "awaitParked",
                  "awaitCtx", "awaitDone", "awaitErr", "backoff",
                  "backoffParked", "backoffCtx", "backoffTimer"}
             => ~initialized)
    /\ [][LET fatal == /\ pc \in {"populate", "persistNet", "persistCont",
                                   "caseError"}
                        /\ pc' \notin {pc, "persistNet", "persistCont",
                                       "select"}
           IN  /\ fatal => /\ pc' = "initEnter"
                           /\ listener' \notin {"bare", "active"}
                           /\ etcd' # "open"
               /\ (~initialized /\ initialized') => pc = "awaitDone"
               /\ (pc # "populate" /\ pc' = "populate") =>
                      (pc = "caseTrigger" /\ initialized)]_vars

\* after an error received from errorChan the handles have been released and
\* the first attempt of the reconnect is under way
C22_Witness ==
    /\ pc \in {"await", "awaitParked"} /\ gpc = "i1"
    /\ err = "async" /\ ~cancelled /\ ~initialized
    /\ listener = "closed" /\ etcd = "closed"

\* C23: after an acquisition has succeeded, with no shutdown requested, the
\* startup trigger is enqueued and a refresh cycle follows; so the scheduler
\* never waits in the startup send of an initialized service with the
\* trigger slot occupied, where no cycle can follow.
C23_StartupRefreshRuns ==
    (initialized /\ ~cancelled /\ pc = "startupSend") => trigger < TriggerCap

\* C24: the three non-blocking enqueues.  The tick case, the send that ends a
\* debounce handling and the function of the settle timer can always take
\* their step, whatever the slot holds; when the slot is occupied the step
\* leaves its content as it is (the trigger is dropped), when it is free the
\* step puts one trigger in it (or hands it to the parked scheduler); the
\* scheduler goes on to its next statement, and the timer function leaves
\* the scheduler where it is unless it hands the trigger over.
C24_DropIfFull ==
    /\ [](/\ pc = "caseTick" => ENABLED CaseTick
          /\ pc = "enqueue" => ENABLED Enqueue
          /\ settleArmed => ENABLED SettleFire)
    /\ [][LET tick == pc = "caseTick" /\ pc' # pc
              burst == pc = "enqueue" /\ pc' # pc
              settle == settleArmed /\ ~settleArmed' /\ pc' # "stopped"
              dropped == trigger = 1 /\ trigger' = 1
              sent == trigger = 0 /\ trigger' = 1
              handed == /\ trigger = 0 /\ trigger' = 0
                        /\ pc = "selectParked" /\ pc' = "caseTrigger"
          IN  /\ tick => (pc' = "select" /\ (dropped \/ sent))
              /\ burst => (pc' = "armSettle" /\ (dropped \/ sent))
              /\ settle => ((pc' = pc /\ (dropped \/ sent)) \/ handed)]_vars

\* a debounce handling has found the slot occupied and dropped its trigger
C24_Witness ==
    /\ pc = "armSettle" /\ burstSent = 0 /\ trigger = 1
    /\ initialized /\ ~cancelled

\* C25: the settle timer.  The step that ends a debounce handling leaves the
\* timer armed, whether the handling enqueued a trigger of its own or dropped
\* it; the timer becomes armed in that step only (not in the tick case, not
\* in the startup send); there is one timer, so that arming it while it is
\* armed leaves one firing to come; the firing attempts one enqueue (one
\* trigger more in the slot or handed to the parked scheduler, or none) and
\* disarms the timer, which does not fire again until it is armed again.
C25_SettleTimer ==
    /\ [](~settleArmed => ~ENABLED SettleFire)
    /\ [][LET fire == settleArmed /\ ~settleArmed' /\ pc' # "stopped"
              handed == pc = "selectParked" /\ pc' = "caseTrigger"
          IN  /\ (pc = "armSettle" /\ pc' # pc) =>
                    (settleArmed' /\ burstSent \in {0, 1} /\ pc' = "select")
              /\ (~settleArmed /\ settleArmed') => pc = "armSettle"
              /\ fire => (trigger' - trigger) + (IF handed THEN 1 ELSE 0)
                           \in {0, 1}]_vars

\* a burst has arrived before the timer armed by an earlier burst fired, its
\* own trigger was dropped, and its handling is about to restart the delay
C25_Witness ==
    /\ pc = "armSettle" /\ settleArmed /\ burstSent = 0
    /\ initialized /\ ~cancelled /\ events = 2

\* C26: when EmptyChanLoop ends because the debounce timer has expired, the
\* signals still queued in refreshChan are flushed: refreshChan is empty when
\* the loop is left on the timer case.
C26_CeilingFlushes ==
    [][(pc = "drain" /\ pc' = "enqueue" /\ ect = "inC" /\ ect' = "drained")
          => refreshChan' = 0]_vars

C28_BackoffPerEpisode ==
    [][LET enter == pc = "initEnter" /\ pc' = "spawn"
           failed == pc = "awaitErr" /\ pc' = "backoff"
           first == failed /\ attempt = 0
           inside == pc \in {"spawn", "sendIn0", "sendIn", "await",
                             "awaitParked", "awaitErr", "backoff",
                             "backoffParked", "backoffTimer"}
                     /\ pc' \notin {"startupSend", "awaitCtx", "awaitDone",
                                    "backoffCtx"}
       IN /\ (enter => wait' = 0)
          /\ (first => wait' = 0)
          /\ (failed => wait' = wait)
          /\ (inside => wait' >= wait)]_vars

\* the first failed attempt of a reconnect, after an acquisition that had
\* itself failed once and waited: the timer is created with wait = 0
C28_Witness ==
    /\ pc = "backoff" /\ attempt = 1 /\ wait = 0
    /\ failBudget = MaxInitFailures - 2
    /\ err # "nil" /\ ~cancelled

\* C29: a step that calls disconnect closes the listener only if it is set and
\* active and the store client only if it is set and open, and leaves a
\* handle that is nil or already closed as it is; when Close fails, the step
\* goes where it goes otherwise (Start returns, or the acquisition restarts)
\* and the error of Start is the one it is otherwise.
C29_BestEffortRelease ==
    [][LET disc == pc \in {"caseCtx", "populate", "persistNet", "persistCont",
                           "caseError"}
                   /\ pc' \in {"stopped", "initEnter"}
           closeFailed == closeBudget' < closeBudget
       IN /\ (disc => /\ listener' = (IF listener \in {"bare", "active"}
                                      THEN "closed" ELSE listener)
                      /\ etcd' = (IF etcd = "open" THEN "closed" ELSE etcd))
          /\ (closeFailed => (disc /\ etcd = "open"))
          /\ ((closeFailed /\ pc = "caseCtx")
                => (pc' = "stopped" /\ err' = err))
          /\ ((closeFailed /\ pc = "caseError")
                => (pc' = "initEnter" /\ err' = err))
          /\ ((closeFailed /\ pc = "populate") => err' = "populate")
          /\ ((closeFailed /\ pc \in {"persistNet", "persistCont"})
                => err' \in {"persist", "ctx"})]_vars

\* after a Close that failed, the reconnect has succeeded and a refresh cycle
\* is writing to the store
C29_Witness ==
    /\ closeBudget < MaxCloseFailures
    /\ initialized /\ listener = "active" /\ etcd = "open"
    /\ pc = "persistCont" /\ ~cancelled

\* C31: the service is created and Service.Start entered only with a
\* configuration file that was read and parsed and has a hostname, a socket,
\* a non-zero wait_for_dhcp, periodic_refresh and dial_timeout, an etcd
\* endpoint and no invalid node_ip; with any other file main ends in
\* os.Exit with the service untouched.
C31_ConfigErrorsStopMain ==
    /\ [](pc \notin {"readInConfig", "exit"} =>
            /\ file.readable /\ file.parses
            /\ file.hostname # "" /\ file.socket # ""
            /\ file.waitForDHCP # 0 /\ file.periodicRefresh # 0
            /\ file.endpoints >= 1 /\ file.dialTimeout # 0
            /\ \A n \in DOMAIN file.containers :
                 file.containers[n].NodeIP \in IPLiterals \cup {""})
    /\ [](pc = "exit" =>
            /\ ~initialized /\ gpc = "none"
            /\ listener = "nil" /\ etcd = "nil" /\ trigger = 0
            /\ cfg = CfgZero)
    /\ [][pc = "exit" => pc' = "exit"]_vars

\* main has exited on a file whose only defect is an invalid node_ip
C31_Witness ==
    /\ pc = "exit"
    /\ file.readable /\ file.parses
    /\ LxdConfigValidate(file) = "nil" /\ EtcdConfigValidate(file) = "nil"
    /\ file.hostname = "host1"
    /\ "web1" \in DOMAIN file.containers
    /\ file.containers["web1"].NodeIP = "10.0.0.256"

\* C32: whenever initServiceWithRetries has returned to Start, the trigger
\* slot is empty, so the startup send completes at once.
C32_StartupSendCompletes == pc = "startupSend" => trigger = 0

\* C33: whenever the scheduler has received a signal from refreshChan, the
\* stop-and-drain of emptyChanTimer completes: the timer is running, or it has
\* fired and its value is still in emptyChanTimer.C.
C33_StopAndDrainCompletes == pc = "caseRefresh" => ect \in {"running", "inC"}

\* C34: the scheduler of an initialized service never receives from errorChan
\* an error whose sender has been waiting since before the current invocation
\* of initServiceWithRetries, that is since an earlier connection generation:
\* such an error never tears down a later generation.
C34_NoStaleError ==
    [][(pc = "select" /\ pc' = "caseError" /\ initialized)
          => staleSenders = 0]_vars

\* C35: while the scheduler handles a failed init attempt and waits before the
\* next one, no event listener opened by the failed attempt is active; and at
\* no time is a listener with the handler installed active without being
\* the one the service refers to.
C35_NoListenerLeft ==
    /\ pc \in {"awaitErr", "backoff", "backoffParked", "backoffTimer"}
         => listener \notin {"bare", "active"}
    /\ ~leak

\* C36: once ctx is cancelled no goroutine enters Service.init: every step
\* that takes the goroutine of an attempt to the first step of init is taken
\* with ctx not cancelled.
C36_NoInitAfterCancel ==
    [][(gpc # "i1" /\ gpc' = "i1") => ~cancelled]_vars

\* C37: the containers key of the host is never ahead of its networks key:
\* when the containers key is present the networks key is present too, and
\* the snapshot stored under the networks key is the one stored under the
\* containers key or a newer one.
C37_ContainersNeverAhead ==
    LET nv == store[<<"/lxd/", cfg.hostname, "/networks">>]
        cv == store[<<"/lxd/", cfg.hostname, "/containers">>]
    IN cv.present => (nv.present /\ nv.ver >= cv.ver)

\* between the two Puts of a cycle that follows a change of the host: the
\* networks key holds the new snapshot, the containers key the earlier one
C37_Witness ==
    /\ pc = "persistCont" /\ ~cancelled
    /\ store[<<"/lxd/", cfg.hostname, "/networks">>].ver = lxdInfo.ver
    /\ store[<<"/lxd/", cfg.hostname, "/containers">>].present
    /\ store[<<"/lxd/", cfg.hostname, "/containers">>].ver < lxdInfo.ver
    /\ store[<<"/lxd/", cfg.hostname, "/containers">>].json # <<>>

\* C38: no goroutine of an init attempt is blocked for ever in its send on
\* errChan or doneChan, and once Start has returned no handler invocation is
\* left waiting to send on errorChan.
C38_NoGoroutineBlocked ==
    /\ ~gblocked
    /\ pc = "stopped" => errSenders = 0
====
